---- MODULE Spec2Model ----
(***************************************************************************)
(* Bug-tracker backend: an Express application over two Mongoose           *)
(* collections (User, Report) and the Firebase notifier.  The repository   *)
(* holds three revisions of the server (src/index.js, src/unnamed/part_000 *)
(* and src/unnamed/part_001); rev selects the one that is running.         *)
(*                                                                         *)
(* A handler runs up to its first store write in one step; what it does    *)
(* after a later await (the create of POST /users, the recipient lookup    *)
(* and notifier call of the report handlers) is a continuation kept in     *)
(* pending and run by a later step, so that requests interleave at the     *)
(* awaits the way they do on the Node event loop.                          *)
(***************************************************************************)
EXTENDS Integers, Sequences, FiniteSets, TLC

VARIABLES rev, phase, users, reports, now, pending, last, nreq

vars == <<rev, phase, users, reports, now, pending, last, nreq>>

(* ------------------------------ bounds -------------------------------- *)
MaxNames    == 1   \* usernames a client may ask for besides 'hasan'
MaxUserIds  == 2   \* values 'u_' + Math.random() may produce
MaxReports  == 2   \* stored reports
MaxComments == 2   \* comments per report
MaxTime     == 1   \* last value of the wall clock
MaxPending  == 2   \* handlers suspended at an await
MaxRequests == 3   \* requests the server accepts in one behaviour

(* ----------------------------- constants ------------------------------ *)
Null == "null"            \* an absent / undefined / null field
NoTime == -1              \* an absent timestamp

Revs == {"index.js", "part_000", "part_001"}

Roles == {"developer", "user"}
Statuses == {"open", "in_progress", "resolved", "closed"}

Usernames == {"hasan"} \cup {"user" \o ToString(i) : i \in 1..MaxNames}
RandomUserIds == {"u_" \o ToString(i) : i \in 1..MaxUserIds}
UserIds == {"u_dev"} \cup RandomUserIds
Passwords == {"dev", "1234"}
Tokens == {"tokA", "tokB"}
Times == 0..MaxTime

(* ------------------------------ helpers ------------------------------- *)
Min(S) == CHOOSE m \in S : \A k \in S : m <= k

\* bcrypt.hash(p, 10) and bcrypt.compare(p, h)
Hash(p) == <<"$2a$10$", p>>
Compare(p, h) == h = Hash(p)

\* the whole document is returned
SafeUser_m(u) == u

\* const { password: _, ...userSafe } = user.toObject()
SafeUser(u) == [k \in (DOMAIN u) \ {"password"} |-> u[k]]

\* Model.findOne(filter): of the indexes the filter matches the first, 0 if
\* there is none
FindOne(hits) == IF hits = {} THEN 0 ELSE Min(hits)

\* the documents of a collection with the given id or username
ById(coll, id) == {i \in DOMAIN coll : coll[i].id = id}
ByUsername(coll, username) == {i \in DOMAIN coll : coll[i].username = username}

\* UserSchema without the unique index on username
UserIndexOk_m(coll, doc) == \A i \in DOMAIN coll : coll[i].id # doc.id

\* the unique indexes of UserSchema: a create that repeats an id or a
\* username is rejected by the store with a duplicate-key error
UserIndexOk(coll, doc) ==
  \A i \in DOMAIN coll : coll[i].id # doc.id /\ coll[i].username # doc.username

\* res.status(s).json(b), with the notifier call the request made
\* last is the latest response: the request it answers, the report the
\* handler got back from the store, the notifier call the handler made, and
\* the status the same request gets when the notifier call succeeds
NoDoc == [x |-> Null]
NoCall == [called |-> FALSE, tokens |-> {}, to |-> {}, ok |-> TRUE]
Respond(route, req, report, status, body, notify, ifOk) ==
  last' = [n |-> 1 - last.n, route |-> route, req |-> req, report |-> report,
           status |-> status, body |-> body, notify |-> notify, ifOk |-> ifOk]
Reply(route, req, status, body) ==
  Respond(route, req, NoDoc, status, body, NoCall, status)
ReplyDoc(route, req, report, status, body) ==
  Respond(route, req, report, status, body, NoCall, status)

Err(m) == [error |-> m]

\* the listening server takes one more request
Accept == nreq < MaxRequests /\ nreq' = nreq + 1

(* ------------------------------- Init --------------------------------- *)
\* connectDB awaits seedDatabase before app.listen (index.js, part_000);
\* part_001 listens as soon as the store is connected
Boot(r) == IF r = "part_001" THEN "serving" ELSE "seed.find"

Init ==
  /\ rev \in Revs
  /\ phase = Boot(rev)
  /\ users = <<>>
  /\ reports = <<>>
  /\ now = 0
  /\ pending = {}
  /\ nreq = 0
  /\ last = [n |-> 0, route |-> "none", req |-> NoDoc, report |-> NoDoc,
             status |-> 0, body |-> NoDoc, notify |-> NoCall, ifOk |-> 0]

(* --------------------------- clock, restart --------------------------- *)
Tick ==
  /\ now < MaxTime
  /\ now' = now + 1
  /\ UNCHANGED <<nreq, rev, phase, users, reports, pending, last>>

\* the process dies and is started again: suspended handlers are lost,
\* the store is kept
Crash ==
  /\ phase' = Boot(rev)
  /\ pending' = {}
  /\ pending # {} \/ phase # Boot(rev)
  /\ UNCHANGED <<nreq, rev, users, reports, now, last>>

(* ------------------------------- seed --------------------------------- *)
\* A user document is id, username, password (the bcrypt hash), role and
\* fcmToken; name is payload no handler reads.  UserSchema as given in
\* part_001 declares no fcmToken path, while the handlers of part_000 and
\* part_001 write it and filter on it: the document keeps the field the
\* handlers use.  A report's reporter is reporterId (createdBy in part_000).
SeedUser == [id |-> "u_dev", username |-> "hasan", password |-> Hash("dev"),
             role |-> "developer", fcmToken |-> Null]

SeedFind ==
  /\ phase = "seed.find"
  /\ LET dev == FindOne(ByUsername(users, "hasan"))
     IN  phase' = IF dev = 0 THEN "seed.create" ELSE "serving"
  /\ UNCHANGED <<nreq, rev, users, reports, now, pending, last>>

SeedCreate ==
  /\ phase = "seed.create"
  /\ IF UserIndexOk(users, SeedUser)
     THEN /\ users' = Append(users, SeedUser)
          /\ phase' = "serving"
     ELSE \* index.js logs the error and listens; part_000 exits and the
          \* process is started again
          /\ users' = users
          /\ phase' = IF rev = "index.js" THEN "serving" ELSE Boot(rev)
  /\ UNCHANGED <<nreq, rev, reports, now, pending, last>>

(* ------------------------------- auth --------------------------------- *)
Login(username, password) ==
  /\ phase = "serving"
  /\ Accept
  /\ LET req == [username |-> username, password |-> password]
         i == FindOne(ByUsername(users, username))
     IN  IF i = 0
         THEN Reply("POST /auth/login", req, 401, Err("Invalid credentials"))
         ELSE IF ~Compare(password, users[i].password)
         THEN Reply("POST /auth/login", req, 401, Err("Invalid credentials"))
         ELSE Reply("POST /auth/login", req, 200, SafeUser(users[i]))
  /\ UNCHANGED <<rev, phase, users, reports, now, pending>>

(* ------------------------------- users -------------------------------- *)
\* the lookup never finds the user
UsernameTaken_m(username) == FALSE

\* const exists = await User.findOne({ username }); if (exists) ...
UsernameTaken(username) == FindOne(ByUsername(users, username)) # 0

\* POST /users up to 'await bcrypt.hash'
PostUsersFind(username, password, role) ==
  /\ phase = "serving"
  /\ Accept
  /\ LET req == [username |-> username, password |-> password, role |-> role]
     IN  IF UsernameTaken(username)
         THEN /\ Reply("POST /users", req, 400, Err("Username taken"))
              /\ pending' = pending
         ELSE /\ Cardinality(pending) < MaxPending
              /\ pending' = pending \cup {[op |-> "users.create", req |-> req]}
              /\ last' = last
  /\ UNCHANGED <<rev, phase, users, reports, now>>

\* POST /users from User.create on
PostUsersCreate(p, id) ==
  /\ phase = "serving"
  /\ p \in pending
  /\ p.op = "users.create"
  /\ pending' = pending \ {p}
  /\ LET doc == [id |-> id, username |-> p.req.username,
                 password |-> Hash(p.req.password), role |-> p.req.role,
                 fcmToken |-> Null]
     IN  IF UserIndexOk(users, doc)
         THEN /\ users' = Append(users, doc)
              /\ Reply("POST /users", p.req, 200, SafeUser(doc))
         ELSE /\ users' = users
              /\ Reply("POST /users", p.req, 500, Err("E11000 duplicate key"))
  /\ UNCHANGED <<nreq, rev, phase, reports, now>>

\* findOneAndUpdate on the first document the filter matches
UpdateOne(coll, i, doc) == [coll EXCEPT ![i] = doc]

\* POST /users/fcm-token (part_000, part_001; index.js has no such route)
FcmToken(userId, token) ==
  /\ phase = "serving"
  /\ Accept
  /\ rev # "index.js"
  /\ LET req == [userId |-> userId, token |-> token]
         i == FindOne(ById(users, userId))
     IN  IF rev = "part_001" /\ (userId = Null \/ token = Null)
         THEN /\ Reply("POST /users/fcm-token", req, 400, Err("userId and token required"))
              /\ users' = users
         ELSE IF i = 0
         THEN /\ users' = users
              /\ IF rev = "part_001"
                 THEN Reply("POST /users/fcm-token", req, 404, Err("User not found"))
                 ELSE Reply("POST /users/fcm-token", req, 200, [success |-> TRUE])
         ELSE \* an undefined value is dropped from the update
              /\ users' = IF token = Null THEN users ELSE UpdateOne(users, i, [users[i] EXCEPT !.fcmToken = token])
              /\ Reply("POST /users/fcm-token", req, 200, [success |-> TRUE])
  /\ UNCHANGED <<rev, phase, reports, now, pending>>

\* POST /users/:id/reset-password
ResetPassword(id) ==
  /\ phase = "serving"
  /\ Accept
  /\ LET i == FindOne(ById(users, id))
     IN  users' = IF i = 0 THEN users
                  ELSE UpdateOne(users, i, [users[i] EXCEPT !.password = Hash("1234")])
  /\ Reply("POST /users/:id/reset-password", [id |-> id], 200, [success |-> TRUE])
  /\ UNCHANGED <<rev, phase, reports, now, pending>>

(* ------------------------------ reports ------------------------------- *)
ActorIds == UserIds            \* reporterId, assignedToId, authorId of a request
ReportIds == {"r_" \o ToString(i) : i \in 1..MaxReports}   \* Math.random() ids
CommentIds == {"c_1"}
StatusInputs == {"resolved", "bogus", Null}   \* req.body.status of PUT /status

\* the unique index of ReportSchema.id (a missing id is indexed as null)
ReportIndexOk(coll, doc) == \A i \in DOMAIN coll : coll[i].id # doc.id

\* the enum validator of ReportSchema.status, run by create (update
\* validators are off unless runValidators is passed, and it is not)
StatusValid(s) == s \in Statuses

\* bodies of POST /reports: plain ones, and ones that carry their own
\* id, status, comments and timestamps
CarriedComment == [id |-> "c_1", authorId |-> "u_dev", timestamp |-> 0]
ReportBodies ==
  {[reporterId |-> a, assignedToId |-> b, id |-> Null, status |-> Null,
    comments |-> <<>>, createdAt |-> NoTime] : a \in ActorIds, b \in {Null, "u_dev"}}
  \cup {[reporterId |-> "u_dev", assignedToId |-> Null, id |-> i, status |-> s,
         comments |-> <<CarriedComment>>, createdAt |-> now]
           : i \in ReportIds, s \in {"closed", "bogus"}}

\* the document Report.create is given; _id is the ObjectId the driver
\* generates for it, of which the model keeps the creation time
NewReport(body, id) ==
  IF rev = "part_001"
  THEN \* Report.create(req.body): schema defaults fill what the body lacks
       [_id |-> now, id |-> body.id, reporterId |-> body.reporterId,
        status |-> IF body.status = Null THEN "open" ELSE body.status,
        assignedToId |-> body.assignedToId, createdAt |-> body.createdAt,
        updatedAt |-> body.createdAt, comments |-> body.comments]
  ELSE \* { ...reportData, id, status: 'open', createdAt, updatedAt, comments: [] }
       [_id |-> now, id |-> id, reporterId |-> body.reporterId, status |-> "open",
        assignedToId |-> body.assignedToId, createdAt |-> now, updatedAt |-> now,
        comments |-> <<>>]

HasToken(u) == u.fcmToken # Null

\* the role is left out of the filter
Developers_m == {i \in DOMAIN users : HasToken(users[i])}

\* User.find({ role: 'developer', fcmToken: { $ne: null } })
Developers == {i \in DOMAIN users : users[i].role = "developer" /\ HasToken(users[i])}

\* User.findOne({ id, fcmToken: { $ne: null } })
Recipient(id) == FindOne({i \in ById(users, id) : HasToken(users[i])})

\* admin.messaging().send / sendAll / sendMulticast to the users at idx
Call(idx, ok) == [called |-> TRUE, tokens |-> {users[i].fcmToken : i \in idx},
                  to |-> {users[i].id : i \in idx}, ok |-> ok]

\* POST /reports up to the end of 'await Report.create'
PostReports(body, id) ==
  /\ phase = "serving"
  /\ Accept
  /\ Len(reports) < MaxReports
  /\ LET doc == NewReport(body, id)
     IN  IF ~StatusValid(doc.status)
         THEN /\ Reply("POST /reports", body, 500, Err("ValidationError"))
              /\ UNCHANGED <<reports, pending>>
         ELSE IF ~ReportIndexOk(reports, doc)
         THEN /\ Reply("POST /reports", body, 500, Err("E11000 duplicate key"))
              /\ UNCHANGED <<reports, pending>>
         ELSE /\ reports' = Append(reports, doc)
              /\ IF rev = "index.js"
                 THEN /\ ReplyDoc("POST /reports", body, doc, 200, doc)
                      /\ pending' = pending
                 ELSE /\ Cardinality(pending) < MaxPending
                      /\ pending' = pending \cup
                            {[op |-> "reports.notify", req |-> body, report |-> doc]}
                      /\ last' = last
  /\ UNCHANGED <<rev, phase, users, now>>

\* POST /reports from 'await User.find' on: the developer fan-out
PostReportsNotify(p, ok) ==
  /\ phase = "serving"
  /\ p \in pending
  /\ p.op = "reports.notify"
  /\ pending' = pending \ {p}
  /\ IF Developers = {}
     THEN /\ ok
          /\ ReplyDoc("POST /reports", p.req, p.report, 200, p.report)
     ELSE IF rev = "part_001"
     THEN \* sendMulticast sits in its own try/catch
          Respond("POST /reports", p.req, p.report, 200, p.report,
                  Call(Developers, ok), 200)
     ELSE \* part_000: a rejected sendAll lands in the handler's catch
          Respond("POST /reports", p.req, p.report, IF ok THEN 200 ELSE 500,
                  IF ok THEN p.report ELSE Err("messaging error"),
                  Call(Developers, ok), 200)
  /\ UNCHANGED <<nreq, rev, phase, users, reports, now>>

\* what a handler does once findOneAndUpdate returned the report at i (null
\* for i = 0): index.js answers at once, the later revisions go on to look
\* the recipient up
AfterUpdate(route, req, i, report, body, target) ==
  IF rev = "index.js"
  THEN /\ ReplyDoc(route, req, report, 200, IF i = 0 THEN NoDoc ELSE body)
       /\ pending' = pending
  ELSE IF i = 0
  THEN \* report is null: reading report.reporterId throws
       /\ Reply(route, req, 500, Err("TypeError"))
       /\ pending' = pending
  ELSE IF target = Null
  THEN /\ ReplyDoc(route, req, report, 200, body)
       /\ pending' = pending
  ELSE /\ Cardinality(pending) < MaxPending
       /\ pending' = pending \cup
             {[op |-> "send", route |-> route, req |-> req, report |-> report,
               body |-> body, target |-> target]}
       /\ last' = last

\* the update replaces the document's comments as well
SetStatus_m(r, status) ==
  [r EXCEPT !.status = status, !.updatedAt = now, !.comments = <<>>]

\* { status, updatedAt: new Date().toISOString() }; an undefined status is
\* dropped from the update
SetStatus(r, status) ==
  [r EXCEPT !.status = IF status = Null THEN @ ELSE status, !.updatedAt = now]

\* PUT /reports/:id/status up to the end of 'await Report.findOneAndUpdate'
PutStatus(id, status) ==
  /\ phase = "serving"
  /\ Accept
  /\ LET req == [id |-> id, status |-> status]
         i == FindOne(ById(reports, id))
         new == IF i = 0 THEN reports
                ELSE UpdateOne(reports, i, SetStatus(reports[i], status))
         report == IF i = 0 THEN NoDoc ELSE new[i]
     IN  /\ reports' = new
         /\ AfterUpdate("PUT /reports/:id/status", req, i, report, report,
                        IF i = 0 THEN Null ELSE report.reporterId)
  /\ UNCHANGED <<rev, phase, users, now>>

\* { assignedToId, assignedToName, updatedAt: new Date().toISOString() }
SetAssign(r, assignedToId) ==
  [r EXCEPT !.assignedToId = assignedToId, !.updatedAt = now]

\* PUT /reports/:id/assign up to the end of 'await Report.findOneAndUpdate'
PutAssign(id, assignedToId) ==
  /\ phase = "serving"
  /\ Accept
  /\ LET req == [id |-> id, assignedToId |-> assignedToId]
         i == FindOne(ById(reports, id))
         new == IF i = 0 THEN reports
                ELSE UpdateOne(reports, i, SetAssign(reports[i], assignedToId))
         report == IF i = 0 THEN NoDoc ELSE new[i]
     IN  /\ reports' = new
         /\ AfterUpdate("PUT /reports/:id/assign", req, i, report, report,
                        assignedToId)
  /\ UNCHANGED <<rev, phase, users, now>>

\* read-modify-write: the comment is appended to a copy of the report read
\* by a handler that is still suspended, and the copy is saved
PushComment_m(r, comment) ==
  LET stale == {p.report : p \in {q \in pending :
                                    /\ q.op \in {"reports.notify", "send"}
                                    /\ q.report.id = r.id}}
      copy == IF stale = {} THEN r ELSE CHOOSE c \in stale : TRUE
  IN  [copy EXCEPT !.comments = Append(@, comment),
                   !.updatedAt = IF rev = "index.js" THEN @ ELSE now]

\* { $push: { comments: comment }, updatedAt: new Date().toISOString() };
\* index.js pushes the comment only
PushComment(r, comment) ==
  [r EXCEPT !.comments = Append(@, comment),
            !.updatedAt = IF rev = "index.js" THEN @ ELSE now]

\* the user the comment handler looks up: the assignee for a comment of the
\* reporter on an assigned report, the reporter for anyone else's comment
CommentTarget(authorId, report) ==
  IF authorId = report.reporterId /\ report.assignedToId # Null
  THEN report.assignedToId
  ELSE IF authorId # report.reporterId THEN report.reporterId
  ELSE Null

\* POST /reports/:id/comments up to the end of 'await Report.findOneAndUpdate'
PostComment(id, authorId, cid) ==
  /\ phase = "serving"
  /\ Accept
  /\ LET req == [id |-> id, authorId |-> authorId]
         comment == [id |-> cid, authorId |-> authorId, timestamp |-> now]
         i == FindOne(ById(reports, id))
         new == IF i = 0 THEN reports
                ELSE UpdateOne(reports, i, PushComment(reports[i], comment))
         report == IF i = 0 THEN NoDoc ELSE new[i]
     IN  /\ i # 0 => Len(reports[i].comments) < MaxComments
         /\ reports' = new
         /\ AfterUpdate("POST /reports/:id/comments", req, i, report, comment,
                        IF i = 0 THEN Null ELSE CommentTarget(authorId, report))
  /\ UNCHANGED <<rev, phase, users, now>>

\* as Notify, but a failed send undoes the handler's write by removing the
\* report
Notify_m(p, ok) ==
  /\ phase = "serving"
  /\ p \in pending
  /\ p.op = "send"
  /\ pending' = pending \ {p}
  /\ LET i == Recipient(p.target)
     IN  IF i = 0
         THEN /\ ok
              /\ reports' = reports
              /\ ReplyDoc(p.route, p.req, p.report, 200, p.body)
         ELSE IF p.route = "PUT /reports/:id/status" /\ p.req.status = Null
         THEN /\ ok
              /\ reports' = reports
              /\ ReplyDoc(p.route, p.req, p.report, 500, Err("TypeError"))
         ELSE /\ reports' = IF ok THEN reports
                            ELSE SelectSeq(reports, LAMBDA r : r.id # p.report.id)
              /\ Respond(p.route, p.req, p.report, IF ok THEN 200 ELSE 500,
                         IF ok THEN p.body ELSE Err("messaging error"),
                         Call({i}, ok), 200)
  /\ UNCHANGED <<nreq, rev, phase, users, now>>

\* the rest of the status, assign and comment handlers: 'await User.findOne'
\* of the recipient, then 'await admin.messaging().send' and the response
Notify(p, ok) ==
  /\ phase = "serving"
  /\ p \in pending
  /\ p.op = "send"
  /\ pending' = pending \ {p}
  /\ LET i == Recipient(p.target)
     IN  IF i = 0
         THEN /\ ok
              /\ ReplyDoc(p.route, p.req, p.report, 200, p.body)
         ELSE IF p.route = "PUT /reports/:id/status" /\ p.req.status = Null
         THEN \* status.replace on undefined throws before send is called
              /\ ok
              /\ ReplyDoc(p.route, p.req, p.report, 500, Err("TypeError"))
         ELSE Respond(p.route, p.req, p.report, IF ok THEN 200 ELSE 500,
                      IF ok THEN p.body ELSE Err("messaging error"),
                      Call({i}, ok), 200)
  /\ UNCHANGED <<nreq, rev, phase, users, reports, now>>

\* the orders Report.find().sort({ createdAt: -1 }) may return the stored
\* reports in: createdAt descending, a report without createdAt last, and
\* reports with equal createdAt in an order the store does not specify
SortedByCreatedAt ==
  {f \in [DOMAIN reports -> DOMAIN reports] :
     /\ \A i, j \in DOMAIN reports : f[i] = f[j] => i = j
     /\ \A i, j \in DOMAIN reports :
          i < j => reports[f[i]].createdAt >= reports[f[j]].createdAt}

\* GET /reports
GetReports(f) ==
  /\ phase = "serving"
  /\ Accept
  /\ f \in SortedByCreatedAt
  /\ Reply("GET /reports", NoDoc, 200,
           [list |-> [k \in DOMAIN reports |-> reports[f[k]]]])
  /\ UNCHANGED <<rev, phase, users, reports, now, pending>>

(* ------------------------------- Next --------------------------------- *)
Startup == SeedFind \/ SeedCreate

\* the user routes
NextUsers ==
  \/ Startup
  \/ Crash
  \/ \E u \in Usernames, p \in Passwords : Login(u, p)
  \/ \E u \in Usernames, p \in Passwords, r \in Roles : PostUsersFind(u, p, r)
  \/ \E p \in pending, id \in RandomUserIds : PostUsersCreate(p, id)
  \/ \E id \in UserIds \cup {Null}, t \in Tokens \cup {Null} : FcmToken(id, t)
  \/ \E id \in UserIds : ResetPassword(id)

\* registration of users and devices, and the creation of reports
NextCreate ==
  \/ Startup
  \/ Tick
  \/ \E u \in Usernames, r \in Roles : PostUsersFind(u, "dev", r)
  \/ \E p \in pending, id \in RandomUserIds : PostUsersCreate(p, id)
  \/ \E id \in UserIds, t \in Tokens : FcmToken(id, t)
  \/ \E b \in ReportBodies, id \in ReportIds : PostReports(b, id)
  \/ \E p \in pending, ok \in BOOLEAN : PostReportsNotify(p, ok)

\* the report routes
NextReports ==
  \/ Startup
  \/ Tick
  \/ \E b \in ReportBodies, id \in ReportIds : PostReports(b, id)
  \/ \E p \in pending, ok \in BOOLEAN : PostReportsNotify(p, ok)
  \/ \E id \in ReportIds, s \in StatusInputs : PutStatus(id, s)
  \/ \E id \in ReportIds, a \in ActorIds : PutAssign(id, a)
  \/ \E id \in ReportIds, a \in ActorIds, c \in CommentIds : PostComment(id, a, c)
  \/ \E p \in pending, ok \in BOOLEAN : Notify(p, ok)

\* the report routes and the listing of the reports
NextList ==
  \/ NextReports
  \/ \E f \in SortedByCreatedAt : GetReports(f)

\* the report routes with the seeded developer's device and restarts
NextCrash ==
  \/ Startup
  \/ Crash
  \/ PostUsersFind("hasan", "dev", "developer")
  \/ \E p \in pending, id \in RandomUserIds : PostUsersCreate(p, id)
  \/ \E id \in UserIds : FcmToken(id, "tokA")
  \/ \E b \in ReportBodies, id \in ReportIds : PostReports(b, id)
  \/ \E p \in pending, ok \in BOOLEAN : PostReportsNotify(p, ok)
  \/ \E id \in ReportIds, s \in StatusInputs : PutStatus(id, s)
  \/ \E id \in ReportIds, a \in ActorIds : PutAssign(id, a)
  \/ \E id \in ReportIds, a \in ActorIds, c \in CommentIds : PostComment(id, a, c)
  \/ \E p \in pending, ok \in BOOLEAN : Notify(p, ok)

\* the report routes with registered devices
NextNotify ==
  \/ NextReports
  \/ \E u \in Usernames, r \in Roles : PostUsersFind(u, "dev", r)
  \/ \E p \in pending, id \in RandomUserIds : PostUsersCreate(p, id)
  \/ \E id \in UserIds, t \in Tokens : FcmToken(id, t)

Next == NextUsers \/ NextNotify \/ NextList \/ NextCrash

Spec == Init /\ [][Next]_vars
SpecUsers == Init /\ [][NextUsers]_vars
SpecCreate == Init /\ [][NextCreate]_vars
SpecReports == Init /\ [][NextReports]_vars
SpecNotify == Init /\ [][NextNotify]_vars
SpecList == Init /\ [][NextList]_vars
SpecCrash == Init /\ [][NextCrash]_vars

TypeOK ==
  /\ rev \in Revs
  /\ now \in Times
  /\ Cardinality(pending) <= MaxPending
  /\ nreq \in 0..MaxRequests

(* ------------------------------- claims ------------------------------- *)
\* a step in which the server answers a request of the given route
Answers(route) == last'.n # last.n /\ last'.route = route

Held(username) == \E i \in DOMAIN users : users[i].username = username

\* C1: a POST /users whose username is held by a stored user when the
\* request arrives is answered in the same step with 400, is not carried on
\* to the create, and leaves the user collection as it was
C1_DuplicateUsernameRejected ==
  [][\A u \in Usernames :
       (nreq' # nreq /\ Held(u)) =>
         /\ \A p \in pending' \ pending :
              ~(p.op = "users.create" /\ p.req.username = u)
         /\ (Answers("POST /users") /\ last'.req.username = u) =>
              (last'.status = 400 /\ users' = users)]_vars

\* a duplicate POST /users was answered 400 while the username is stored
C1_Witness ==
  /\ last.route = "POST /users"
  /\ last.status = 400
  /\ Held(last.req.username)
  /\ Len(users) = 1

\* C2: no two stored users share a username
C2_UsernamesUnique ==
  \A i, j \in DOMAIN users :
    users[i].username = users[j].username => i = j

\* two POST /users for one username both passed the lookup, the first
\* create stored the user and the second was refused by the store
C2_Witness ==
  /\ last.route = "POST /users"
  /\ last.status = 500
  /\ Held(last.req.username)
  /\ \E i \in DOMAIN users : users[i].id \in RandomUserIds
  /\ \E i \in DOMAIN users : users[i].id = "u_dev"

C3_WitnessOk ==
  /\ last.route = "POST /auth/login"
  /\ last.status = 200
  /\ last.body.username = last.req.username

IdOf(coll, id) == FindOne(ById(coll, id))

IsPrefix(a, b) == Len(a) <= Len(b) /\ \A k \in 1..Len(a) : a[k] = b[k]

\* C4: whatever the body carries, a report that POST /reports stores has
\* status 'open', no comments and an identifier no stored report has, and
\* the report in the response is the stored one
C4_CreatedReportIsFresh ==
  [][  /\ Len(reports') > Len(reports) =>
          LET d == reports'[Len(reports')]
          IN  /\ d.status = "open"
              /\ d.comments = <<>>
              /\ \A i \in DOMAIN reports : reports[i].id # d.id
      /\ (Answers("POST /reports") /\ last'.status = 200) =>
          /\ last'.body.status = "open"
          /\ last'.body.comments = <<>>
          /\ \E i \in DOMAIN reports' : reports'[i] = last'.body]_vars

\* C5: when a handler called the notifier, the status of its response is
\* the status the request gets when the notifier call succeeds
C5_NotifierFailureKeepsStatus ==
  last.notify.called => last.status = last.ifOk

\* C6: a comment posted on a stored report R is appended at the end of R's
\* list, R's updatedAt becomes the time of the request, R's earlier comments
\* and the comment lists of the other reports stay as they were
C6_CommentAppend ==
  [][\A id \in ReportIds, a \in ActorIds, c \in CommentIds :
       (PostComment(id, a, c) /\ IdOf(reports, id) # 0) =>
         LET i == IdOf(reports, id)
         IN  /\ Len(reports') = Len(reports)
             /\ Len(reports'[i].comments) = Len(reports[i].comments) + 1
             /\ IsPrefix(reports[i].comments, reports'[i].comments)
             /\ reports'[i].comments[Len(reports'[i].comments)].authorId = a
             /\ reports'[i].updatedAt = now
             /\ \A j \in DOMAIN reports :
                  j # i => reports'[j].comments = reports[j].comments]_vars

\* C7: the status of every stored report is one of the four of the enum
C7_StatusInEnum ==
  \A i \in DOMAIN reports : reports[i].status \in Statuses

\* C8: the notification of a comment never goes to the comment's author; a
\* comment of the reporter goes to the assignee and a comment of the
\* assignee to the reporter, when that user has a push token
C8_CommentNotifiesOtherParty ==
  [][(Answers("POST /reports/:id/comments") /\ last'.report # NoDoc) =>
       LET r == last'.report
           a == last'.req.authorId
           to == last'.notify.to
           HasTok(id) == \E i \in DOMAIN users : users[i].id = id /\ users[i].fcmToken # Null
       IN  /\ a \notin to
           /\ (a = r.reporterId /\ r.assignedToId \notin {Null, a} /\ HasTok(r.assignedToId))
                => to = {r.assignedToId}
           /\ (a = r.assignedToId /\ r.reporterId # a /\ HasTok(r.reporterId))
                => to = {r.reporterId}]_vars

\* the fields of report r other than those named in ks are as in q
SameBut(r, q, ks) == DOMAIN r = DOMAIN q /\ \A k \in (DOMAIN r) \ ks : r[k] = q[k]

\* C9: a status update (an assignment) of a stored report changes only its
\* status (its assignee) and updatedAt and no other report; over any step
\* reports are never removed, keep their identifier and their comment list
\* only grows
C9_UpdatesAreFramed ==
  [][  /\ (\A id \in ReportIds, x \in StatusInputs :
          (PutStatus(id, x) /\ IdOf(reports, id) # 0) =>
            /\ Len(reports') = Len(reports)
            /\ \A j \in DOMAIN reports :
                 SameBut(reports'[j], reports[j],
                         IF j = IdOf(reports, id) THEN {"status", "updatedAt"} ELSE {}))
      /\ (\A rid \in ReportIds, y \in ActorIds :
          (PutAssign(rid, y) /\ IdOf(reports, rid) # 0) =>
            /\ Len(reports') = Len(reports)
            /\ \A j \in DOMAIN reports :
                 SameBut(reports'[j], reports[j],
                         IF j = IdOf(reports, rid)
                         THEN {"assignedToId", "updatedAt"} ELSE {}))
      /\ Len(reports') >= Len(reports)
      /\ (\A j \in DOMAIN reports :
           /\ reports'[j].id = reports[j].id
           /\ IsPrefix(reports[j].comments, reports'[j].comments))]_vars

\* the status of a report that has a comment was updated while another
\* report is stored
C9_Witness ==
  /\ last.route = "PUT /reports/:id/status"
  /\ last.status = 200
  /\ Len(reports) = 2
  /\ \E i \in DOMAIN reports :
       /\ reports[i].id = last.req.id
       /\ reports[i].status = "resolved"
       /\ reports[i].comments # <<>>

\* C10: the fan-out of a created report is one notifier call to the push
\* tokens of exactly the users that are developers with a push token when
\* the handler looks them up, and no call when there is none
C10_FanOutToDevelopers ==
  [][(Answers("POST /reports") /\ last'.report # NoDoc) =>
       LET devs == {i \in DOMAIN users :
                      users[i].role = "developer" /\ users[i].fcmToken # Null}
       IN  /\ last'.notify.called <=> devs # {}
           /\ last'.notify.tokens = {users[i].fcmToken : i \in devs}
           /\ last'.notify.to = {users[i].id : i \in devs}]_vars

\* a report was created while a developer with a token and a user that is
\* no developer are stored: the call went to the developer alone
C10_Witness ==
  /\ last.route = "POST /reports"
  /\ last.notify.called
  /\ \E i, j \in DOMAIN users :
       /\ users[i].role = "developer" /\ users[i].fcmToken # Null
       /\ users[j].role = "user"
       /\ last.notify.to = {users[i].id}

\* C11: GET /reports returns every stored report once, and of two reports
\* created at different times the one created later comes first
C11_ListNewestFirst ==
  [][Answers("GET /reports") =>
       LET list == last'.body.list
       IN  /\ Len(list) = Len(reports)
           /\ \A i \in DOMAIN reports : \E k \in DOMAIN list : list[k] = reports[i]
           /\ \A k, l \in DOMAIN list :
                (k < l /\ list[k]._id # list[l]._id) => list[k]._id > list[l]._id]_vars

\* the write of the suspended report handler p is in the store: the created
\* report, the pushed comment, the updated document
InStore(p, store) ==
  \E i \in DOMAIN store :
    /\ store[i].id = p.report.id
    /\ store[i]._id = p.report._id
    /\ p.op = "send" => store[i].updatedAt >= p.report.updatedAt
    /\ (p.op = "send" /\ p.route = "POST /reports/:id/comments") =>
         \E k \in DOMAIN store[i].comments : store[i].comments[k] = p.body

ReportOp(p) == p.op \in {"reports.notify", "send"}

\* the users the suspended report handler p sends to, as the store has them
Recipients(p) ==
  IF p.op = "reports.notify" THEN Developers
  ELSE IF Recipient(p.target) = 0 THEN {} ELSE {Recipient(p.target)}

\* C12: a report handler calls the notifier in a step that writes nothing
\* and after its own write reached the store; it answers 200 to a request
\* that has a recipient only in the step of the notifier call; and when the
\* process dies with handlers suspended between their write and the end of
\* the notifier call, the store is as it was and holds what they wrote
C12_WriteBeforeNotify ==
  [][  /\ (last'.n # last.n /\ last'.notify.called) =>
            /\ reports' = reports
            /\ \E p \in pending \ pending' :
                 ReportOp(p) /\ p.report = last'.report /\ InStore(p, reports)
       /\ (\A p \in pending \ pending' :
            (ReportOp(p) /\ last'.n # last.n /\ last'.status = 200
               /\ Recipients(p) # {}) => last'.notify.called)
       /\ (pending # {} /\ pending' = {} /\ last' = last) =>
            /\ reports' = reports
            /\ users' = users
            /\ \A p \in pending : ReportOp(p) => InStore(p, reports')]_vars

\* a report was written, its handler died before the notifier call returned
\* and never answered (the one response so far is the device registration),
\* and the report is in the store after the restart
C12_Witness ==
  /\ rev # "index.js"
  /\ pending = {}
  /\ nreq = 2
  /\ last.n = 1
  /\ last.route = "POST /users/fcm-token"
  /\ last.status = 200
  /\ Developers # {}
  /\ Len(reports) = 1

IsCommentSend(p) == p.op = "send" /\ p.route = "POST /reports/:id/comments"

\* C13: no update is lost when requests on one report interleave: a step
\* keeps every stored report and every stored comment and adds at most one
\* comment; a step that adds a comment leaves status and assignee as they
\* were, a step that changes the status leaves comments and assignee, a step
\* that changes the assignee leaves comments and status; a handler resumed
\* after its write writes nothing; and the comment of every handler still
\* suspended is in the stored report
C13_NoLostUpdate ==
  [][  /\ (\A i \in DOMAIN reports :
             /\ i \in DOMAIN reports'
             /\ reports'[i].id = reports[i].id
             /\ IsPrefix(reports[i].comments, reports'[i].comments)
             /\ Len(reports'[i].comments) <= Len(reports[i].comments) + 1
             /\ reports'[i].comments # reports[i].comments =>
                  /\ reports'[i].status = reports[i].status
                  /\ reports'[i].assignedToId = reports[i].assignedToId
             /\ reports'[i].status # reports[i].status =>
                  /\ reports'[i].comments = reports[i].comments
                  /\ reports'[i].assignedToId = reports[i].assignedToId
             /\ reports'[i].assignedToId # reports[i].assignedToId =>
                  /\ reports'[i].comments = reports[i].comments
                  /\ reports'[i].status = reports[i].status)
       /\ (pending' # pending /\ pending' \subseteq pending) => reports' = reports
       /\ (\A p \in pending' :
             IsCommentSend(p) =>
               \E j \in DOMAIN reports' :
                 /\ reports'[j].id = p.report.id
                 /\ \E k \in DOMAIN reports'[j].comments :
                      reports'[j].comments[k] = p.body)]_vars

\* two comment requests on one report are both suspended after their writes
\* and the stored report holds both comments
C13_Witness ==
  \E p, q \in pending :
    /\ p # q
    /\ IsCommentSend(p)
    /\ IsCommentSend(q)
    /\ p.report.id = q.report.id
    /\ \E i \in DOMAIN reports :
         /\ reports[i].id = p.report.id
         /\ Len(reports[i].comments) = 2
         /\ \E k, l \in 1..2 :
              /\ k # l
              /\ reports[i].comments[k] = p.body
              /\ reports[i].comments[l] = q.body
====
